---- MODULE Spec2Model ----
(***************************************************************************)
(* Certificate manager (server.js): an HTTP backend that keeps a manifest  *)
(* of certificate records and their image files on a remote FTP store.     *)
(*                                                                         *)
(* Strings that the code takes apart or concatenates (certNumber, file     *)
(* names, paths, URLs) are sequences of tokens: "/" and "." are tokens of  *)
(* their own, every other token is a run of ordinary characters.           *)
(* Concatenation is \o.  The other field values are one-token strings.     *)
(***************************************************************************)
EXTENDS Integers, Sequences, FiniteSets, TLC

(* ------------------------------ bounds -------------------------------- *)
\* number of HTTP requests in one behaviour (two may be in flight together)
MaxRequests == 2
\* longest manifest the store holds before the first request
MaxInitLen == 1

(* ----------------------------- constants ------------------------------ *)
CERT_BASE_PATH == <<"/", "certificates">>
MANIFEST_PATH == CERT_BASE_PATH \o <<"/", "manifest", ".", "json">>
IMAGES_PATH == CERT_BASE_PATH \o <<"/", "images">>
\* the literal prefix of imageUrl
IMAGE_URL_PREFIX == <<"/", "api", "/", "image", "/">>
\* the fallback extension of an image without one
DEFAULT_EXT == <<".", "jpg">>
\* the JavaScript value undefined (a field the request did not carry); no
\* input string equals it
Undefined == <<"undefined">>

(* -------------------------- path (node:path) -------------------------- *)
\* index of the last occurrence of token t in s, 0 when there is none
RECURSIVE LastIndexOf(_, _)
LastIndexOf(s, t) ==
    IF s = <<>> THEN 0
    ELSE IF s[Len(s)] = t THEN Len(s)
    ELSE LastIndexOf(SubSeq(s, 1, Len(s) - 1), t)

\* s without its trailing "/" tokens
RECURSIVE StripTrailingSlashes(_)
StripTrailingSlashes(s) ==
    IF s # <<>> /\ s[Len(s)] = "/"
    THEN StripTrailingSlashes(SubSeq(s, 1, Len(s) - 1))
    ELSE s

\* path.basename(p): the last portion of p, trailing separators ignored
Basename(p) ==
    LET q == StripTrailingSlashes(p)
    IN  SubSeq(q, LastIndexOf(q, "/") + 1, Len(q))

\* path.extname(p): from the last "." of the last portion to its end; empty
\* when there is no "." or the only "." starts the portion, or it is ".."
Extname(p) ==
    LET base == Basename(p)
        dot  == LastIndexOf(base, ".")
    IN  IF dot <= 1 \/ base = <<".", ".">> THEN <<>>
        ELSE SubSeq(base, dot, Len(base))

(* ------------------------------- JSON --------------------------------- *)
\* property read o.k of a JavaScript object: undefined when k is absent
Get(o, k) == IF k \in DOMAIN o THEN o[k] ELSE Undefined

\* JSON.stringify of one object: properties whose value is undefined are
\* left out
StringifyObject(o) ==
    [k \in {x \in DOMAIN o : o[x] # Undefined} |-> o[k]]

\* JSON.stringify(array, null, 2): the text of the manifest file
Stringify(arr) ==
    [kind |-> "json", value |-> [i \in 1..Len(arr) |-> StringifyObject(arr[i])]]

\* what a remote file can hold: nothing (no file), text that is not JSON,
\* or the JSON text of an array
Absent == [kind |-> "absent"]
Corrupt == [kind |-> "corrupt"]

\* JSON.parse(data): the array the text denotes; defined on JSON text only
\* (on any other text JSON.parse throws)
Parses(text) == text.kind = "json"
Parse(text) == text.value

(* ------------------------------ inputs -------------------------------- *)
\* certificate numbers a caller sends; "A/B" has a path separator in it
CertNumbers == {<<"B">>, <<"A", "/", "B">>}
\* the forms a caller uploads: issueDate, issuedToName and the image's file
\* name.  One carries every field and an image name with an extension, the
\* other no issuedToName field and an image name without an extension.
UploadForms ==
    {[issueDate |-> <<"2024-01-01">>, issuedToName |-> <<"Jane">>,
      originalname |-> <<"a", ".", "png">>],
     [issueDate |-> <<"2024-02-02">>, issuedToName |-> Undefined,
      originalname |-> <<"a">>]}

NoInput == <<>>
\* the text of the upload form's ftpConfig field: JSON, or text that is not
\* (the other endpoints get their configuration as the parsed request body)
ConfigText == [kind |-> "json", value |-> <<"ftpConfig">>]
BadConfigText == Corrupt
UploadInputs ==
    {[kind |-> "upload", hasFile |-> TRUE, certNumber |-> c,
      issueDate |-> f.issueDate, issuedToName |-> f.issuedToName,
      originalname |-> f.originalname, ftpConfig |-> ConfigText] :
        c \in CertNumbers, f \in UploadForms}
\* an upload whose ftpConfig field is not JSON
BadConfigInputs ==
    {[kind |-> "upload", hasFile |-> TRUE, certNumber |-> <<"B">>,
      issueDate |-> <<"2024-01-01">>, issuedToName |-> <<"Jane">>,
      originalname |-> <<"a", ".", "png">>, ftpConfig |-> BadConfigText]}
RequestInputs ==
    UploadInputs
    \cup BadConfigInputs
    \cup [kind : {"upload"}, hasFile : {FALSE}, certNumber : {NoInput},
          issueDate : {NoInput}, issuedToName : {NoInput}, originalname : {NoInput},
          ftpConfig : {NoInput}]
    \cup [kind : {"delete"}, hasFile : {FALSE}, certNumber : CertNumbers,
          issueDate : {NoInput}, issuedToName : {NoInput}, originalname : {NoInput},
          ftpConfig : {NoInput}]
    \cup [kind : {"certificates", "test-connection"}, hasFile : {FALSE},
          certNumber : {NoInput}, issueDate : {NoInput}, issuedToName : {NoInput},
          originalname : {NoInput}, ftpConfig : {NoInput}]
IdleInput ==
    [kind |-> "none", hasFile |-> FALSE, certNumber |-> NoInput,
     issueDate |-> NoInput, issuedToName |-> NoInput, originalname |-> NoInput,
     ftpConfig |-> NoInput]

Reqs == 1..MaxRequests

(* --------------------- the upload handler's values -------------------- *)
\* fault: no fallback extension
ImageExtension_raw(originalname) == Extname(originalname)

\* line 134: path.extname(req.file.originalname) || '.jpg'
ImageExtension(originalname) ==
    IF Extname(originalname) # <<>> THEN Extname(originalname) ELSE DEFAULT_EXT

\* line 135: `${IMAGES_PATH}/${certNumber}${imageExtension}`
ImagePath(certNumber, imageExtension) ==
    IMAGES_PATH \o <<"/">> \o certNumber \o imageExtension

\* line 138: `/api/image/${certNumber}${imageExtension}`
ImageUrl(certNumber, imageExtension) ==
    IMAGE_URL_PREFIX \o certNumber \o imageExtension

\* line 139: { certNumber, issueDate, issuedToName, imageUrl }
NewCert(i) ==
    [certNumber |-> i.certNumber, issueDate |-> i.issueDate,
     issuedToName |-> i.issuedToName,
     imageUrl |-> ImageUrl(i.certNumber, ImageExtension(i.originalname))]

\* fault: nothing is filtered out
FilterOut_none(m, certNumber) == m

\* fault: the first match and all that follows it are dropped
FilterOut_truncate(m, certNumber) ==
    LET hits == {j \in 1..Len(m) : Get(m[j], "certNumber") = certNumber}
    IN  IF hits = {} THEN m
        ELSE SubSeq(m, 1, (CHOOSE j \in hits : \A k \in hits : j <= k) - 1)

\* manifest.filter(c => c.certNumber !== certNumber)
FilterOut(m, certNumber) ==
    LET Keep(c) == Get(c, "certNumber") # certNumber
    IN  SelectSeq(m, Keep)

\* fault: push instead of unshift
UploadUpdatedManifest_push(m, i) == FilterOut(m, i.certNumber) \o <<NewCert(i)>>

\* fault: fields the request lacks are taken over from the old record
UploadUpdatedManifest_merge(m, i) ==
    LET Old(c) == Get(c, "certNumber") = i.certNumber
        olds == SelectSeq(m, Old)
        new == NewCert(i)
        merged == IF olds = <<>> THEN new
                  ELSE [k \in DOMAIN new |->
                          IF new[k] = Undefined THEN Get(olds[1], k) ELSE new[k]]
    IN  <<merged>> \o FilterOut(m, i.certNumber)

\* lines 141-142: filter, then unshift(newCert)
UploadUpdatedManifest(m, i) == <<NewCert(i)>> \o FilterOut(m, i.certNumber)

(* --------------------- the delete handler's values -------------------- *)
\* line 160: manifest.find(c => c.certNumber === certNumber); called only
\* when some record matches
CertToDelete(m, certNumber) ==
    LET j == CHOOSE j \in 1..Len(m) :
                 /\ Get(m[j], "certNumber") = certNumber
                 /\ \A q \in 1..(j - 1) : Get(m[q], "certNumber") # certNumber
    IN  m[j]

\* lines 170-171: `${IMAGES_PATH}/${path.basename(certToDelete.imageUrl)}`
RemovePath(cert) == IMAGES_PATH \o <<"/">> \o Basename(Get(cert, "imageUrl"))

(* ------------------------------- state -------------------------------- *)
VARIABLES
    manifestFile,   \* contents of /certificates/manifest.json on the store
    images,         \* paths of the files under /certificates/images
    dirExists,      \* whether /certificates/images exists on the store
    req,            \* req[r]: the inputs of request r
    pc,             \* pc[r]: the await at which r's handler stands; "done"
                    \* once it has answered, "rejected" when it has thrown
                    \* outside its try and answered nothing
    client,         \* client[r]: the control connection of the Client that
                    \* getFtpClient made for r: "none", "open" (held by the
                    \* handler), "closed", or "unclosed" (connected, but
                    \* getFtpClient threw and nothing refers to the Client)
    loc,            \* loc[r]: the handler's manifest and updatedManifest
    resp,           \* resp[r]: the HTTP response, status 0 while there is none
    hist,           \* hist[r]: what r has read and done so far (history)
    writes,         \* number of changes of the manifest file so far (history)
    initUnique,     \* whether the manifest before the first request had no
                    \* two records of one certNumber (history)
    config,         \* getFtpClient on its own: the config it is called with
    accessOptions,  \* the options it passes to client.access
    ftpPc,          \* where it stands: "start", "access", "returned", "threw"
    thrown          \* the message of the Error it has thrown

\* the state of getFtpClient run on its own (SpecFtp)
ftpVars == <<config, accessOptions, ftpPc, thrown>>
vars == <<manifestFile, images, dirExists, req, pc, client, loc, resp, hist,
          writes, initUnique, ftpVars>>
store == <<manifestFile, images, dirExists>>

NoLocals == [manifest |-> <<>>, updatedManifest |-> <<>>]
NoResponse == [status |-> 0, message |-> <<>>, body |-> <<>>]
\* soloStart: no other handler was in flight when r arrived
\* okAtStart: every record's image file was there when r arrived
\* readFile, hasRead: the manifest file when getManifest ran, and whether
\*   the server answered the download
\* wroteImage, removed: the image paths r has written and removed
\* wroteManifest, writeSeq: r's manifest upload and its number among all
\* attempts, cause: the calls of client.access made for r, and err.message
\*   of the one that rejected
\* failed: some step of r's handler has thrown
NoHistory ==
    [soloStart |-> FALSE, okAtStart |-> FALSE, readFile |-> Absent,
     hasRead |-> FALSE, wroteImage |-> {}, wroteManifest |-> FALSE,
     removed |-> {}, writeSeq |-> 0, attempts |-> 0, cause |-> <<>>,
     failed |-> FALSE]

\* no two records of manifest m have the same certNumber
UniqueKeys(m) ==
    \A j, k \in 1..Len(m) :
        Get(m[j], "certNumber") = Get(m[k], "certNumber") => j = k

\* what is kept of an answered request's history when the next one arrives:
\* whether it ran alone, what it read and what it wrote
Compact(h) ==
    [NoHistory EXCEPT !.soloStart = h.soloStart, !.wroteImage = h.wroteImage,
                      !.wroteManifest = h.wroteManifest,
                      !.readFile = h.readFile, !.hasRead = h.hasRead]

(* ---------------------- getFtpClient's arguments ---------------------- *)
\* values of config.secure: the strings a caller sends for implicit and
\* explicit TLS, and false and true (written "false", "true")
SecureValues == {"false", "true", "explicit", "implicit"}

\* the configs a caller sends
Configs ==
    [host : {"ftp.example.org", "10.0.0.1"}, port : {21, 990},
     user : {"admin", "anonymous"}, password : {"secret", "guest"},
     secure : SecureValues]
NoConfig ==
    [host |-> "", port |-> 0, user |-> "", password |-> "", secure |-> "false"]

\* lines 34 and 40-44: the `secure` option passed to client.access is
\* 'implicit' when config.secure === 'implicit', and false otherwise
AccessSecure(secure) == IF secure = "implicit" THEN "implicit" ELSE "false"

\* lines 28-44: accessOptions
AccessOptions(c) ==
    [host |-> c.host, port |-> c.port, user |-> c.user,
     password |-> c.password, secure |-> AccessSecure(c.secure)]

(* --------------------------- initial stores --------------------------- *)
\* records an earlier run of the upload handler has left in the manifest
InitRecords ==
    {StringifyObject(NewCert(
        [certNumber |-> c, issueDate |-> <<"2024-01-01">>,
         issuedToName |-> <<"Jane">>, originalname |-> <<"a">>])) :
        c \in CertNumbers}

RECURSIVE SeqsUpTo(_, _)
SeqsUpTo(S, n) ==
    IF n = 0 THEN {<<>>}
    ELSE LET shorter == SeqsUpTo(S, n - 1)
         IN  shorter \cup {Append(q, x) : q \in shorter, x \in S}

\* the extensions ImageExtension yields for the image names of UploadForms
Extensions == {ImageExtension(f.originalname) : f \in UploadForms}

\* the files the upload handler stores for a record with c's certNumber and
\* imageUrl (lines 135 and 138: path and URL share certNumber and extension)
RecordImages(c) ==
    {ImagePath(Get(c, "certNumber"), e) : e \in
        {x \in Extensions : ImageUrl(Get(c, "certNumber"), x) = Get(c, "imageUrl")}}

\* the image paths of the records of manifest m
ImagesOf(m) == UNION {RecordImages(m[j]) : j \in 1..Len(m)}

\* every record of the remote manifest has its image file on the store
ImagesExist ==
    Parses(manifestFile) => ImagesOf(Parse(manifestFile)) \subseteq images

Init ==
    /\ \/ /\ manifestFile = Absent
          /\ images = {}
          /\ dirExists \in BOOLEAN
       \/ /\ manifestFile = Corrupt
          /\ images = {}
          /\ dirExists = TRUE
       \/ \E m \in SeqsUpTo(InitRecords, MaxInitLen) :
            /\ manifestFile = [kind |-> "json", value |-> m]
            /\ images = ImagesOf(m)
            /\ dirExists = TRUE
    /\ req = [r \in Reqs |-> IdleInput]
    /\ pc = [r \in Reqs |-> "idle"]
    /\ client = [r \in Reqs |-> "none"]
    /\ loc = [r \in Reqs |-> NoLocals]
    /\ resp = [r \in Reqs |-> NoResponse]
    /\ hist = [r \in Reqs |-> NoHistory]
    /\ writes = 0
    /\ initUnique = (Parses(manifestFile) => UniqueKeys(Parse(manifestFile)))
    /\ config = NoConfig
    /\ accessOptions = NoConfig
    /\ ftpPc = "start"
    /\ thrown = <<>>

(* ----------------------- responding and finally ----------------------- *)
\* res.status(status).json(...) followed by the finally block, which closes
\* the client when there is one; no await lies between the two, and the
\* handler's locals end with it
Respond(r, status, message, body) ==
    /\ resp' = [resp EXCEPT ![r] =
                   [status |-> status, message |-> message, body |-> body]]
    /\ client' = [client EXCEPT ![r] = IF @ = "open" THEN "closed" ELSE @]
    /\ pc' = [pc EXCEPT ![r] = "done"]
    /\ loc' = [loc EXCEPT ![r] = NoLocals]

\* error.message of a failed FTP command or transfer
TransportError == <<"ETIMEDOUT">>
\* err.message of a login the server refuses
LoginError == <<"530 Login incorrect">>
NotFoundError == <<"550 No such file">>
SyntaxError == <<"Unexpected token in JSON">>

(* ------------------------------ arrival ------------------------------- *)
\* the handler of request q has run to its end
Over(q) == pc[q] \in {"done", "rejected"}

\* Request-scoped state ends with the handler.  When request r arrives, an
\* answered request keeps its status and the state of its client only;
\* the upload answered 201 just before r also keeps its inputs.
Gone(q, r) ==
    \/ q < r - 1
    \/ /\ q = r - 1
       /\ Over(q)
       /\ ~(req[q].kind = "upload" /\ resp[q].status = 201)

\* A request arrives with its inputs (requests are numbered in the order
\* they arrive; a request arrives when all but the latest of the earlier
\* ones are over, so at most two handlers are in flight at a time).
\* POST /api/upload without a file answers 400 at once (lines 124-126).
\* With a file it parses the ftpConfig field before its try (line 128): on
\* text that is no JSON the handler's promise rejects there.  Express 4
\* drops the rejection and nothing is ever answered; Express 5 hands it to
\* its error handler, which answers 500 (`caught`).
\* Every other request goes on to open its FTP session.
Arrive(r) ==
    /\ pc[r] = "idle"
    /\ \A q \in 1..(r - 1) : pc[q] # "idle"
    /\ \A q \in 1..(r - 2) : Over(q)
    /\ \E i \in RequestInputs, caught \in BOOLEAN :
        LET noFile == i.kind = "upload" /\ ~i.hasFile
            badConfig == i.kind = "upload" /\ i.hasFile /\ ~Parses(i.ftpConfig)
        IN  /\ req' = [q \in Reqs |->
                          IF q = r THEN i
                          ELSE IF Gone(q, r) THEN IdleInput ELSE req[q]]
            /\ pc' = [pc EXCEPT ![r] =
                         IF noFile THEN "done"
                         ELSE IF ~badConfig THEN "connect"
                         ELSE IF caught THEN "done" ELSE "rejected"]
            /\ resp' = [q \in Reqs |->
                           IF q = r /\ noFile
                           THEN [status |-> 400,
                                 message |-> <<"No image file uploaded.">>,
                                 body |-> <<>>]
                           ELSE IF q = r /\ badConfig /\ caught
                           THEN [status |-> 500, message |-> SyntaxError,
                                 body |-> <<>>]
                           ELSE IF Gone(q, r)
                           THEN [NoResponse EXCEPT !.status = resp[q].status]
                           ELSE resp[q]]
            /\ hist' = [q \in Reqs |->
                           IF q = r
                           THEN [NoHistory EXCEPT
                                    !.soloStart = \A p \in 1..(r - 1) : Over(p),
                                    !.okAtStart = ImagesExist,
                                    !.failed = badConfig]
                           ELSE IF Gone(q, r) THEN NoHistory
                           ELSE IF Over(q) THEN Compact(hist[q])
                           ELSE hist[q]]
    /\ UNCHANGED <<store, client, loc, writes, initUnique, ftpVars>>

(* ---------------------------- getFtpClient ---------------------------- *)
\* what the handler awaits once the session is open
AfterConnect(kind) ==
    IF kind = "test-connection" THEN "ensureDir" ELSE "getManifest"

\* client.access resolves (lines 25-51)
ConnectOk(r) ==
    /\ pc[r] = "connect"
    /\ client' = [client EXCEPT ![r] = "open"]
    /\ pc' = [pc EXCEPT ![r] = AfterConnect(req[r].kind)]
    /\ hist' = [hist EXCEPT ![r].attempts = @ + 1]
    /\ UNCHANGED <<store, req, loc, resp, writes, initUnique, ftpVars>>

\* err.message of a rejected client.access: the host does not answer (no
\* control connection), or the server answers and refuses the login (the
\* control connection stays as it is until the Client is closed)
ConnectErrors == {TransportError, LoginError}

\* line 49: the message of the Error getFtpClient throws
ConnectionFailedMessage(cause) ==
    <<"FTP connection failed: ">> \o cause
        \o <<". Check host, credentials, and security setting.">>

\* fault: a rejected client.access is tried once more before it is reported
ConnectFail_retry(r) ==
    /\ pc[r] = "connect"
    /\ \E cause \in ConnectErrors :
        IF hist[r].attempts = 0
        THEN /\ hist' = [hist EXCEPT ![r].attempts = @ + 1, ![r].failed = TRUE]
             /\ UNCHANGED <<pc, loc, resp, client>>
        ELSE /\ hist' = [hist EXCEPT ![r].attempts = @ + 1, ![r].cause = cause,
                                     ![r].failed = TRUE]
             /\ resp' = [resp EXCEPT ![r] =
                            [status |-> 500,
                             message |-> ConnectionFailedMessage(cause),
                             body |-> <<>>]]
             /\ client' = [client EXCEPT ![r] =
                              IF cause = LoginError THEN "unclosed" ELSE "none"]
             /\ pc' = [pc EXCEPT ![r] = "done"]
             /\ loc' = [loc EXCEPT ![r] = NoLocals]
    /\ UNCHANGED <<store, req, writes, initUnique, ftpVars>>

\* client.access rejects: getFtpClient throws without closing the Client it
\* made (lines 25, 47-50); the handler's catch answers 500 and its finally
\* finds its own `client` undefined, so closes nothing
ConnectFail(r) ==
    /\ pc[r] = "connect"
    /\ \E cause \in ConnectErrors :
        /\ hist' = [hist EXCEPT ![r].attempts = @ + 1, ![r].cause = cause,
                                ![r].failed = TRUE]
        /\ resp' = [resp EXCEPT ![r] =
                       [status |-> 500,
                        message |-> ConnectionFailedMessage(cause),
                        body |-> <<>>]]
        /\ client' = [client EXCEPT ![r] =
                         IF cause = LoginError THEN "unclosed" ELSE "none"]
    /\ pc' = [pc EXCEPT ![r] = "done"]
    /\ loc' = [loc EXCEPT ![r] = NoLocals]
    /\ UNCHANGED <<store, req, writes, initUnique, ftpVars>>

(* ----------------------- POST /api/test-connection -------------------- *)
\* fault: the probe also starts an empty manifest where there is none
EnsureDirOk_init(r) ==
    /\ pc[r] = "ensureDir"
    /\ dirExists' = TRUE
    /\ manifestFile' = IF manifestFile = Absent THEN Stringify(<<>>)
                       ELSE manifestFile
    /\ Respond(r, 200,
               <<"Connection successful. Certificate directory is ready.">>, <<>>)
    /\ UNCHANGED <<images, req, hist, writes, initUnique, ftpVars>>

\* client.ensureDir(IMAGES_PATH) resolves (lines 85-86)
EnsureDirOk(r) ==
    /\ pc[r] = "ensureDir"
    /\ dirExists' = TRUE
    /\ Respond(r, 200,
               <<"Connection successful. Certificate directory is ready.">>, <<>>)
    /\ UNCHANGED <<manifestFile, images, req, hist, writes, initUnique, ftpVars>>

\* client.ensureDir rejects (lines 87-89)
EnsureDirFail(r) ==
    /\ pc[r] = "ensureDir"
    /\ hist' = [hist EXCEPT ![r].failed = TRUE]
    /\ Respond(r, 500, TransportError, <<>>)
    /\ UNCHANGED <<store, req, writes, initUnique, ftpVars>>

(* ----------------------------- getManifest ---------------------------- *)
\* fault: the length check is missing
RecordFound_always(m, updated) == TRUE

\* line 163 negated: some record was filtered out
RecordFound(m, updated) == Len(m) # Len(updated)

\* The handler's code from the return of getManifest to its next await.
\* certificates: answer 200 with the manifest (line 100).
\* upload: go on to the image upload (line 136).
\* delete: find and filter (lines 160-162); 404 when nothing was filtered out
\*   (lines 163-165), else go on to the manifest upload (line 167).
WithManifest(r, m) ==
    /\ hist' = [hist EXCEPT ![r].readFile = manifestFile, ![r].hasRead = TRUE]
    /\ CASE req[r].kind = "certificates" ->
              Respond(r, 200, <<>>, m)
         [] req[r].kind = "upload" ->
              /\ loc' = [loc EXCEPT ![r].manifest = m]
              /\ pc' = [pc EXCEPT ![r] = "uploadImage"]
              /\ UNCHANGED <<client, resp>>
         [] req[r].kind = "delete" ->
              LET updated == FilterOut(m, req[r].certNumber)
              IN  IF RecordFound(m, updated)
                  THEN /\ loc' = [loc EXCEPT ![r] =
                                     [manifest |-> m, updatedManifest |-> updated]]
                       /\ pc' = [pc EXCEPT ![r] = "uploadManifest"]
                       /\ UNCHANGED <<client, resp>>
                  ELSE Respond(r, 404,
                               <<"Certificate not found in manifest.">>, <<>>)
    /\ UNCHANGED <<store, req, writes, initUnique, ftpVars>>

\* fault: code 550 is rethrown like every other error
GetManifest_rethrow(file, answered) ==
    IF ~answered THEN [threw |-> TRUE, value |-> TransportError]
    ELSE IF file = Absent THEN [threw |-> TRUE, value |-> NotFoundError]
    ELSE IF ~Parses(file) THEN [threw |-> TRUE, value |-> SyntaxError]
    ELSE [threw |-> FALSE, value |-> Parse(file)]

\* fault: every error of the read is taken for "no manifest yet"
GetManifest_swallow(file, answered) ==
    IF answered /\ Parses(file) THEN [threw |-> FALSE, value |-> Parse(file)]
    ELSE [threw |-> FALSE, value |-> <<>>]

\* getManifest (lines 55-73) on a remote file `file`.  answered: the server
\* answers the download (a transfer that breaks off rejects with no FTP
\* code).  No file: the download rejects with code 550 and getManifest
\* returns [] (lines 66-69).  Text that is no JSON: JSON.parse throws, the
\* error has no code 550 and is rethrown (line 71).
GetManifest(file, answered) ==
    IF ~answered THEN [threw |-> TRUE, value |-> TransportError]
    ELSE IF file = Absent THEN [threw |-> FALSE, value |-> <<>>]
    ELSE IF ~Parses(file) THEN [threw |-> TRUE, value |-> SyntaxError]
    ELSE [threw |-> FALSE, value |-> Parse(file)]

\* getManifest returns and the handler goes on
GetManifestReturns(r) ==
    /\ pc[r] = "getManifest"
    /\ \E answered \in BOOLEAN :
        LET out == GetManifest(manifestFile, answered)
        IN  /\ ~out.threw
            /\ WithManifest(r, out.value)

\* getManifest throws and the handler's catch answers 500
GetManifestThrows(r) ==
    /\ pc[r] = "getManifest"
    /\ \E answered \in BOOLEAN :
        LET out == GetManifest(manifestFile, answered)
        IN  /\ out.threw
            /\ hist' = [hist EXCEPT ![r].readFile = manifestFile,
                                    ![r].hasRead = answered,
                                    ![r].failed = TRUE]
            /\ Respond(r, 500, out.value, <<>>)
    /\ UNCHANGED <<store, req, writes, initUnique, ftpVars>>

(* --------------------------- POST /api/upload ------------------------- *)
\* the path the handler of request r uploads its image to (lines 134-135)
UploadPath(r) ==
    ImagePath(req[r].certNumber, ImageExtension(req[r].originalname))

\* fault: the handler goes on to the manifest without uploading the image
UploadImageOk_skip(r) ==
    /\ pc[r] = "uploadImage"
    /\ dirExists
    /\ loc' = [loc EXCEPT ![r].updatedManifest =
                  UploadUpdatedManifest(loc[r].manifest, req[r])]
    /\ pc' = [pc EXCEPT ![r] = "uploadManifest"]
    /\ UNCHANGED <<store, req, client, resp, hist, writes, initUnique, ftpVars>>

\* the image upload resolves (line 136); the handler builds newCert and
\* updatedManifest (lines 138-142) and goes on to the manifest upload
UploadImageOk(r) ==
    /\ pc[r] = "uploadImage"
    /\ dirExists
    /\ images' = images \cup {UploadPath(r)}
    /\ loc' = [loc EXCEPT ![r].updatedManifest =
                  UploadUpdatedManifest(loc[r].manifest, req[r])]
    /\ hist' = [hist EXCEPT ![r].wroteImage = {UploadPath(r)}]
    /\ pc' = [pc EXCEPT ![r] = "uploadManifest"]
    /\ UNCHANGED <<manifestFile, dirExists, req, client, resp, writes, initUnique, ftpVars>>

\* the image upload rejects: 500 (lines 146-148); the store may keep the
\* part of the file that was transferred
UploadImageFail(r) ==
    /\ pc[r] = "uploadImage"
    /\ \/ /\ hist' = [hist EXCEPT ![r].failed = TRUE]
          /\ UNCHANGED images
       \/ /\ dirExists
          /\ images' = images \cup {UploadPath(r)}
          /\ hist' = [hist EXCEPT ![r].wroteImage = {UploadPath(r)},
                                  ![r].failed = TRUE]
    /\ Respond(r, 500, TransportError, <<>>)
    /\ UNCHANGED <<manifestFile, dirExists, req, writes, initUnique, ftpVars>>

(* ------------------ the manifest upload (upload, delete) -------------- *)
\* the handler's code after the manifest upload resolves: upload answers
\* 201 (line 145); delete goes on to remove the image (lines 169-171)
AfterManifestUpload(r) ==
    IF req[r].kind = "upload"
    THEN Respond(r, 201, <<"Certificate uploaded successfully.">>, <<>>)
    ELSE /\ pc' = [pc EXCEPT ![r] = "removeImage"]
         /\ UNCHANGED <<client, resp, loc>>

\* uploadFrom(JSON.stringify(updatedManifest, null, 2), MANIFEST_PATH)
\* resolves: the remote file is overwritten (lines 144, 167)
UploadManifestOk(r) ==
    /\ pc[r] = "uploadManifest"
    /\ dirExists
    /\ manifestFile' = Stringify(loc[r].updatedManifest)
    /\ writes' = writes + 1
    /\ hist' = [hist EXCEPT ![r].wroteManifest = TRUE, ![r].writeSeq = writes + 1]
    /\ AfterManifestUpload(r)
    /\ UNCHANGED <<images, dirExists, req, initUnique, ftpVars>>

\* the manifest upload rejects: 500; the remote file is as before or holds
\* the part of the text that was transferred, which is no JSON
UploadManifestFail(r) ==
    /\ pc[r] = "uploadManifest"
    /\ \/ UNCHANGED <<manifestFile, writes>>
       \/ /\ dirExists
          /\ manifestFile' = Corrupt
          /\ writes' = writes + 1
    /\ hist' = [hist EXCEPT ![r].failed = TRUE]
    /\ Respond(r, 500, TransportError, <<>>)
    /\ UNCHANGED <<images, dirExists, req, initUnique, ftpVars>>

(* --------------------------- POST /api/delete ------------------------- *)
\* the path the handler of request r removes (lines 160, 170-171)
DeletePath(r) == RemovePath(CertToDelete(loc[r].manifest, req[r].certNumber))

\* client.remove resolves: the file is gone, 200 (line 174)
RemoveImageOk(r) ==
    /\ pc[r] = "removeImage"
    /\ DeletePath(r) \in images
    /\ images' = images \ {DeletePath(r)}
    /\ hist' = [hist EXCEPT ![r].removed = {DeletePath(r)}]
    /\ Respond(r, 200, <<"Certificate deleted successfully.">>, <<>>)
    /\ UNCHANGED <<manifestFile, dirExists, req, writes, initUnique, ftpVars>>

\* client.remove rejects (with 550 when there is no such file): 500
RemoveImageFail(r) ==
    /\ pc[r] = "removeImage"
    /\ \E e \in {TransportError}
                 \cup (IF DeletePath(r) \notin images THEN {NotFoundError} ELSE {}) :
           Respond(r, 500, e, <<>>)
    /\ hist' = [hist EXCEPT ![r].failed = TRUE]
    /\ UNCHANGED <<store, req, writes, initUnique, ftpVars>>

(* ----------------------- getFtpClient on its own ---------------------- *)
\* getFtpClient is called with a config: no request is in flight, the store
\* is one without a manifest
InitFtp ==
    /\ manifestFile = Absent
    /\ images = {}
    /\ dirExists = TRUE
    /\ req = [r \in Reqs |-> IdleInput]
    /\ pc = [r \in Reqs |-> "idle"]
    /\ client = [r \in Reqs |-> "none"]
    /\ loc = [r \in Reqs |-> NoLocals]
    /\ resp = [r \in Reqs |-> NoResponse]
    /\ hist = [r \in Reqs |-> NoHistory]
    /\ writes = 0
    /\ initUnique = TRUE
    /\ config \in Configs
    /\ accessOptions = NoConfig
    /\ ftpPc = "start"
    /\ thrown = <<>>

handlerVars ==
    <<manifestFile, images, dirExists, req, pc, client, loc, resp, hist,
      writes, initUnique>>

\* lines 25-46: the Client is made, accessOptions built, client.access called
BuildAccessOptions ==
    /\ ftpPc = "start"
    /\ accessOptions' = AccessOptions(config)
    /\ ftpPc' = "access"
    /\ UNCHANGED <<handlerVars, config, thrown>>

\* line 46 resolves and line 51 returns the client
AccessResolves ==
    /\ ftpPc = "access"
    /\ ftpPc' = "returned"
    /\ UNCHANGED <<handlerVars, config, accessOptions, thrown>>

\* line 46 rejects and line 49 throws
AccessRejects ==
    /\ ftpPc = "access"
    /\ \E cause \in ConnectErrors :
           thrown' = ConnectionFailedMessage(cause)
    /\ ftpPc' = "threw"
    /\ UNCHANGED <<handlerVars, config, accessOptions>>

NextFtp == BuildAccessOptions \/ AccessResolves \/ AccessRejects

SpecFtp == InitFtp /\ [][NextFtp]_vars

(* ---------------------------- specification --------------------------- *)
Next ==
    \E r \in Reqs :
        \/ Arrive(r)
        \/ ConnectOk(r)
        \/ ConnectFail(r)
        \/ EnsureDirOk(r)
        \/ EnsureDirFail(r)
        \/ GetManifestReturns(r)
        \/ GetManifestThrows(r)
        \/ UploadImageOk(r)
        \/ UploadImageFail(r)
        \/ UploadManifestOk(r)
        \/ UploadManifestFail(r)
        \/ RemoveImageOk(r)
        \/ RemoveImageFail(r)

Spec == Init /\ [][Next]_vars

TypeOK ==
    /\ ftpPc \in {"start", "access", "returned", "threw"}
    /\ accessOptions.secure \in {"false", "true", "implicit"}
    /\ manifestFile.kind \in {"absent", "corrupt", "json"}
    /\ dirExists \in BOOLEAN
    /\ \A r \in Reqs :
        /\ pc[r] \in {"idle", "connect", "ensureDir", "getManifest",
                      "uploadImage", "uploadManifest", "removeImage", "done",
                      "rejected"}
        /\ client[r] \in {"none", "open", "closed", "unclosed"}
        /\ resp[r].status \in {0, 200, 201, 400, 404, 500}

(* ======================= properties of the handlers =================== *)
\* request r has been answered with `status`
Answered(r, status) == pc[r] = "done" /\ resp[r].status = status

\* no request has arrived after r
Latest(r) == \A q \in Reqs : q > r => pc[q] = "idle"

\* r ran with no other handler in flight, and none has arrived since
Alone(r) == hist[r].soloStart /\ Latest(r)

\* the records of the manifest file as r's getManifest found it ([] when
\* there was no file)
ReadManifest(r) ==
    IF hist[r].readFile.kind = "json" THEN hist[r].readFile.value ELSE <<>>

\* certNumber k occurs in manifest m
HasKey(m, k) == \E j \in 1..Len(m) : Get(m[j], "certNumber") = k

\* manifest m without the records of certNumber k, order kept
Without(m, k) ==
    LET Other(c) == Get(c, "certNumber") # k
    IN  SelectSeq(m, Other)

\* the extension of an image file name: from its last "." on, ".jpg" for a
\* name without one
ExtensionOf(name) ==
    LET dots == {j \in 1..Len(name) : name[j] = "."}
    IN  IF dots = {} THEN <<".", "jpg">>
        ELSE SubSeq(name, CHOOSE j \in dots : \A k \in dots : k <= j, Len(name))

\* the imageUrl of the record that upload request r adds
ExpectedImageUrl(r) ==
    <<"/", "api", "/", "image", "/">> \o req[r].certNumber
        \o ExtensionOf(req[r].originalname)

\* the record of upload request r as the manifest file holds it: the fields
\* as supplied (a field the request did not carry is not there) and imageUrl
ExpectedRecord(r) ==
    IF req[r].issuedToName = Undefined
    THEN [certNumber |-> req[r].certNumber, issueDate |-> req[r].issueDate,
          imageUrl |-> ExpectedImageUrl(r)]
    ELSE [certNumber |-> req[r].certNumber, issueDate |-> req[r].issueDate,
          issuedToName |-> req[r].issuedToName, imageUrl |-> ExpectedImageUrl(r)]

\* the remote manifest file holds exactly the records m
ManifestIs(m) == manifestFile = [kind |-> "json", value |-> m]

\* C1: starting from a store whose manifest is absent or has pairwise
\* distinct certNumbers, no manifest that is ever on the remote file, under
\* any interleaving of the requests, has two records of one certNumber.
C1_UniqueCertNumbers ==
    initUnique =>
        (Parses(manifestFile) =>
            \A j, k \in 1..Len(Parse(manifestFile)) :
                j # k => Get(Parse(manifestFile)[j], "certNumber")
                            # Get(Parse(manifestFile)[k], "certNumber"))

\* a manifest of two or more records, written by a request that ran
\* together with another one
C1_Witness ==
    /\ initUnique
    /\ Parses(manifestFile)
    /\ Len(Parse(manifestFile)) >= 2
    /\ \E r \in Reqs :
        /\ ~hist[r].soloStart
        /\ hist[r].wroteManifest
        /\ hist[r].writeSeq = writes
        /\ HasKey(ReadManifest(r), req[r].certNumber)

\* C2: after a successful upload, with no concurrent request, of a
\* certNumber that does not occur in the manifest M, the manifest is the new
\* record followed by M (one record more, the new one first).
C2_UploadNewKey ==
    \A r \in Reqs :
        (/\ req[r].kind = "upload"
         /\ Answered(r, 201)
         /\ Alone(r)
         /\ ~HasKey(ReadManifest(r), req[r].certNumber))
        => /\ ManifestIs(<<ExpectedRecord(r)>> \o ReadManifest(r))
           /\ Len(Parse(manifestFile)) = Len(ReadManifest(r)) + 1

\* such an upload onto a manifest that already has a record, by a request
\* that carries no issuedToName
C2_Witness ==
    \E r \in Reqs :
        /\ req[r].kind = "upload"
        /\ Answered(r, 201)
        /\ Alone(r)
        /\ ~HasKey(ReadManifest(r), req[r].certNumber)
        /\ ReadManifest(r) # <<>>
        /\ req[r].issuedToName = Undefined

\* C3: after a successful upload, with no concurrent request, of a
\* certNumber that occurs in a manifest M of unique keys, the manifest is as
\* long as M, its first record is the new one with the new fields only, and
\* the rest is M without the old record, in M's order.
C3_UploadExistingKey ==
    \A r \in Reqs :
        (/\ req[r].kind = "upload"
         /\ Answered(r, 201)
         /\ Alone(r)
         /\ HasKey(ReadManifest(r), req[r].certNumber)
         /\ UniqueKeys(ReadManifest(r)))
        => /\ Parses(manifestFile)
           /\ Len(Parse(manifestFile)) = Len(ReadManifest(r))
           /\ Head(Parse(manifestFile)) = ExpectedRecord(r)
           /\ Tail(Parse(manifestFile)) = Without(ReadManifest(r), req[r].certNumber)

\* such an upload, without issuedToName, onto a manifest of two records
\* whose old record has an issuedToName
C3_Witness ==
    \E r \in Reqs :
        /\ req[r].kind = "upload"
        /\ Answered(r, 201)
        /\ Alone(r)
        /\ UniqueKeys(ReadManifest(r))
        /\ Len(ReadManifest(r)) >= 2
        /\ req[r].issuedToName = Undefined
        /\ \E j \in 1..Len(ReadManifest(r)) :
            /\ Get(ReadManifest(r)[j], "certNumber") = req[r].certNumber
            /\ Get(ReadManifest(r)[j], "issuedToName") # Undefined

\* the records of the remote manifest file now ([] when there is no file or
\* it is no JSON)
CurrentManifest == IF Parses(manifestFile) THEN Parse(manifestFile) ELSE <<>>

\* C4: a delete request whose getManifest finds a manifest (or no file)
\* without the certNumber is answered 404 in that step; it has written no
\* manifest and removed no image, and manifest file and images are as before.
C4_DeleteNotFound ==
    [][\A r \in Reqs :
        (/\ req[r].kind = "delete"
         /\ pc[r] = "getManifest"
         /\ pc'[r] # "getManifest"
         /\ hist'[r].hasRead
         /\ manifestFile # Corrupt
         /\ ~HasKey(CurrentManifest, req[r].certNumber))
        => /\ pc'[r] = "done"
           /\ resp'[r].status = 404
           /\ manifestFile' = manifestFile
           /\ images' = images
           /\ ~hist'[r].wroteManifest
           /\ hist'[r].removed = {}]_vars

\* a delete answered 404 that found a manifest with records
C4_Witness ==
    \E r \in Reqs :
        /\ req[r].kind = "delete"
        /\ Answered(r, 404)
        /\ hist[r].hasRead
        /\ ReadManifest(r) # <<>>
        /\ manifestFile = hist[r].readFile

\* C5: after a successful delete, with no concurrent request, of a
\* certNumber that occurs in a manifest M of unique keys, the manifest is M
\* with exactly that one record taken out: one record less, the others in
\* M's order and unchanged.
C5_DeleteExistingKey ==
    \A r \in Reqs :
        (/\ req[r].kind = "delete"
         /\ Answered(r, 200)
         /\ Alone(r)
         /\ HasKey(ReadManifest(r), req[r].certNumber)
         /\ UniqueKeys(ReadManifest(r)))
        => \E j \in 1..Len(ReadManifest(r)) :
            /\ Get(ReadManifest(r)[j], "certNumber") = req[r].certNumber
            /\ ManifestIs(SubSeq(ReadManifest(r), 1, j - 1)
                            \o SubSeq(ReadManifest(r), j + 1, Len(ReadManifest(r))))
            /\ Len(Parse(manifestFile)) = Len(ReadManifest(r)) - 1

\* such a delete of the second of two records
C5_Witness ==
    \E r \in Reqs :
        /\ req[r].kind = "delete"
        /\ Answered(r, 200)
        /\ Alone(r)
        /\ UniqueKeys(ReadManifest(r))
        /\ Len(ReadManifest(r)) >= 2
        /\ Get(ReadManifest(r)[2], "certNumber") = req[r].certNumber

\* C6: a list request whose download of the manifest is answered with "no
\* such file" (code 550) is answered 200 with the empty list.
C6_ListWithoutManifest ==
    \A r \in Reqs :
        (/\ req[r].kind = "certificates"
         /\ pc[r] = "done"
         /\ hist[r].hasRead
         /\ hist[r].readFile = Absent)
        => /\ resp[r].status = 200
           /\ resp[r].body = <<>>

\* a list request answered on a store without a manifest file
C6_Witness ==
    \E r \in Reqs :
        /\ req[r].kind = "certificates"
        /\ Answered(r, 200)
        /\ hist[r].hasRead
        /\ hist[r].readFile = Absent
        /\ manifestFile = Absent

\* list request r directly follows the successful upload r - 1: neither ran
\* with another handler in flight, and no request has arrived since
ListsAfterUpload(r) ==
    /\ r > 1
    /\ req[r - 1].kind = "upload"
    /\ Answered(r - 1, 201)
    /\ hist[r - 1].soloStart
    /\ req[r].kind = "certificates"
    /\ Answered(r, 200)
    /\ Alone(r)

\* C7: a list request that directly follows a successful upload of record R
\* returns a manifest with a record that has R's certNumber, issueDate and
\* issuedToName as supplied, and imageUrl "/api/image/" + certNumber +
\* image extension.
C7_UploadThenList ==
    \A r \in Reqs :
        ListsAfterUpload(r) =>
            \E j \in 1..Len(resp[r].body) :
                /\ Get(resp[r].body[j], "certNumber") = req[r - 1].certNumber
                /\ Get(resp[r].body[j], "issueDate") = req[r - 1].issueDate
                /\ Get(resp[r].body[j], "issuedToName") = req[r - 1].issuedToName
                /\ Get(resp[r].body[j], "imageUrl") = ExpectedImageUrl(r - 1)

\* such a list of two records, after an upload whose image name has no
\* extension
C7_Witness ==
    \E r \in Reqs :
        /\ ListsAfterUpload(r)
        /\ Len(resp[r].body) >= 2
        /\ req[r - 1].originalname = <<"a">>

\* C8: in an upload with no concurrent request the image is written before
\* the manifest, and if every record's image was on the store when the
\* upload arrived, then in every state of the upload (whatever step fails,
\* wherever it stops) every record of the remote manifest has its image.
C8_UploadImageFirst ==
    \A r \in Reqs :
        (req[r].kind = "upload" /\ Alone(r))
        => /\ hist[r].wroteManifest => UploadPath(r) \in hist[r].wroteImage
           /\ hist[r].okAtStart => ImagesExist

\* an upload that failed between the two writes: its image is on the store
\* and no record of the manifest refers to it
C8_Witness ==
    \E r \in Reqs :
        /\ req[r].kind = "upload"
        /\ Alone(r)
        /\ hist[r].okAtStart
        /\ Answered(r, 500)
        /\ UploadPath(r) \in hist[r].wroteImage
        /\ UploadPath(r) \in images
        /\ ~hist[r].wroteManifest
        /\ CurrentManifest # <<>>
        /\ UploadPath(r) \notin ImagesOf(CurrentManifest)

\* C9: in a delete with no concurrent request the manifest without the
\* record is written before the image is removed, and in every state of the
\* delete no record of the remote manifest has an image that this delete
\* has removed.
C9_DeleteManifestFirst ==
    \A r \in Reqs :
        (req[r].kind = "delete" /\ Alone(r))
        => /\ hist[r].removed # {} => hist[r].wroteManifest
           /\ ImagesOf(CurrentManifest) \cap hist[r].removed = {}

\* the result of write request r on manifest m
ExpectedResult(r, m) ==
    IF req[r].kind = "upload"
    THEN <<ExpectedRecord(r)>> \o Without(m, req[r].certNumber)
    ELSE Without(m, req[r].certNumber)

\* write request r has been answered with success
Succeeded(r) ==
    \/ req[r].kind = "upload" /\ Answered(r, 201)
    \/ req[r].kind = "delete" /\ Answered(r, 200)

\* p and q found the same manifest file, both succeeded, and q's manifest
\* upload was the last change of the file, after p's
LostUpdate(p, q) ==
    /\ p # q
    /\ Succeeded(p)
    /\ Succeeded(q)
    /\ hist[p].readFile = hist[q].readFile
    /\ 0 < hist[p].writeSeq
    /\ hist[p].writeSeq < hist[q].writeSeq
    /\ hist[q].writeSeq = writes

\* C10: when two write requests have read the same manifest and both have
\* answered success, the manifest file is the result of the one whose
\* manifest upload came last, applied to the manifest both read; the other
\* one's change is not in it (see C10_Witness for a state where this happens).
C10_LastWriteWins ==
    \A p, q \in Reqs :
        LostUpdate(p, q) => ManifestIs(ExpectedResult(q, ReadManifest(q)))

\* two uploads of different certNumbers, neither in the manifest both read:
\* both answered 201, and the record of the first is not in the manifest
C10_Witness ==
    \E p, q \in Reqs :
        /\ LostUpdate(p, q)
        /\ req[p].kind = "upload"
        /\ req[q].kind = "upload"
        /\ req[p].certNumber # req[q].certNumber
        /\ ~HasKey(ReadManifest(p), req[p].certNumber)
        /\ ReadManifest(p) # <<>>
        /\ ~HasKey(CurrentManifest, req[p].certNumber)
        /\ HasKey(CurrentManifest, req[q].certNumber)

\* C11: when the handler of a request has run to its end, on whatever path
\* (success, 404, or a thrown error), no control connection that a Client
\* made for the request is still open; so once every request is over, no
\* session is open.
C11_SessionsClosed ==
    \A r \in Reqs : Over(r) => client[r] \notin {"open", "unclosed"}

\* C12: a handler that has run to its end has sent a response, and when one
\* of its steps has thrown (the parse of the upload's ftpConfig field
\* included) the response is an error (4xx or 5xx) with a message; no
\* failure leaves the request unanswered.
C12_AlwaysAnswered ==
    \A r \in Reqs :
        /\ Over(r) => resp[r].status # 0
        /\ (Over(r) /\ hist[r].failed)
            => (resp[r].status >= 400 /\ resp[r].message # <<>>)

\* C13: a delete request whose download of the manifest is answered with "no
\* such file" is answered 404 (not found) in that step; no manifest file is
\* created and no image is removed.
C13_DeleteWithoutManifest ==
    [][\A r \in Reqs :
        (/\ req[r].kind = "delete"
         /\ pc[r] = "getManifest"
         /\ pc'[r] # "getManifest"
         /\ hist'[r].hasRead
         /\ manifestFile = Absent)
        => /\ pc'[r] = "done"
           /\ resp'[r].status = 404
           /\ resp'[r].message # <<>>
           /\ manifestFile' = Absent
           /\ images' = images
           /\ dirExists' = dirExists]_vars

\* a delete answered 404 on a store that has image files and no manifest
C13_Witness ==
    \E r \in Reqs :
        /\ req[r].kind = "delete"
        /\ Answered(r, 404)
        /\ hist[r].hasRead
        /\ hist[r].readFile = Absent
        /\ manifestFile = Absent
        /\ images # {}

\* C14: when getManifest runs for a list, upload or delete request and the
\* manifest file is there but no JSON, or the download fails without the
\* server's "no such file", the request is answered 500 in that step and
\* has changed nothing: no image written, no manifest written, no image
\* removed, manifest file and images as before.
C14_ManifestUnreadable ==
    [][\A r \in Reqs :
        (/\ req[r].kind \in {"certificates", "upload", "delete"}
         /\ pc[r] = "getManifest"
         /\ pc'[r] # "getManifest"
         /\ (manifestFile = Corrupt \/ ~hist'[r].hasRead))
        => /\ pc'[r] = "done"
           /\ resp'[r].status = 500
           /\ resp'[r].message # <<>>
           /\ manifestFile' = manifestFile
           /\ images' = images
           /\ hist'[r].wroteImage = {}
           /\ ~hist'[r].wroteManifest
           /\ hist'[r].removed = {}]_vars

\* an upload answered 500 on a manifest file that is no JSON
C14_Witness ==
    \E r \in Reqs :
        /\ req[r].kind = "upload"
        /\ Answered(r, 500)
        /\ hist[r].hasRead
        /\ hist[r].readFile = Corrupt
        /\ manifestFile = Corrupt
        /\ hist[r].wroteImage = {}

\* sequence c occurs in sequence m as a run of consecutive elements
Contains(m, c) ==
    \E j \in 0..(Len(m) - Len(c)) : SubSeq(m, j + 1, j + Len(c)) = c

\* C15: the step in which the opening of the session fails is the request's
\* first and only call of client.access; it answers 500 with a message that
\* has the error's own message in it, and the request has read, written and
\* removed nothing on the store.
C15_ConnectFailsOnce ==
    [][\A r \in Reqs :
        (pc[r] = "connect" /\ hist'[r].failed)
        => /\ pc'[r] = "done"
           /\ hist'[r].attempts = 1
           /\ resp'[r].status = 500
           /\ hist'[r].cause # <<>>
           /\ Contains(resp'[r].message, hist'[r].cause)
           /\ manifestFile' = manifestFile
           /\ images' = images
           /\ dirExists' = dirExists
           /\ ~hist'[r].hasRead
           /\ hist'[r].wroteImage = {}
           /\ ~hist'[r].wroteManifest
           /\ hist'[r].removed = {}]_vars

\* a delete of a record that is in the manifest, refused at the login
C15_Witness ==
    \E r \in Reqs :
        /\ req[r].kind = "delete"
        /\ Answered(r, 500)
        /\ hist[r].cause = <<"530 Login incorrect">>
        /\ hist[r].attempts = 1
        /\ HasKey(CurrentManifest, req[r].certNumber)

\* C16: no step of a test-connection or list request changes the manifest
\* file or the image files.  A list request changes nothing at all on the
\* store; a test-connection request changes at most the directory, which
\* is there after its ensureDir has succeeded (made, or found as it was).
C16_ProbeAndListFrame ==
    [][\A r \in Reqs :
        (req'[r].kind \in {"test-connection", "certificates"} /\ pc'[r] # pc[r])
        => /\ manifestFile' = manifestFile
           /\ images' = images
           /\ IF req'[r].kind = "test-connection" /\ pc[r] = "ensureDir"
                  /\ resp'[r].status = 200
              THEN dirExists'
              ELSE dirExists' = dirExists]_vars

\* a test-connection answered 200 on a store that has a manifest with
\* records and image files
C16_Witness ==
    \E r \in Reqs :
        /\ req[r].kind = "test-connection"
        /\ Answered(r, 200)
        /\ dirExists
        /\ CurrentManifest # <<>>
        /\ images # {}

\* the security mode a caller asks for with config.secure
RequestedMode(secure) ==
    CASE secure = "implicit" -> "implicit-TLS"
      [] secure \in {"explicit", "true"} -> "explicit-TLS"
      [] OTHER -> "plain"

\* the security mode in which client.access opens the session, by its
\* `secure` option: 'implicit', true (explicit TLS) or false
OpenedMode(option) ==
    CASE option = "implicit" -> "implicit-TLS"
      [] option = "true" -> "explicit-TLS"
      [] OTHER -> "plain"

\* C17: once getFtpClient has called client.access, the security mode of
\* the options it passed is the mode the caller asked for, for each of
\* plain, explicit TLS and implicit TLS.
C17_SecureModeKept ==
    ftpPc # "start"
        => OpenedMode(accessOptions.secure) = RequestedMode(config.secure)

\* no step of request r has failed: it was answered 200, 201 or 404
Unfailed(r) == pc[r] = "done" /\ resp[r].status \in {200, 201, 404}

\* C18: once all requests (uploads and deletes, in any interleaving) are
\* over and no step of any has failed, every record of the remote manifest
\* has its image file on the store.  (Every initial store has the images of
\* its records.)
C18_ImagesExistAtRest ==
    (\A r \in Reqs : Unfailed(r)) => ImagesExist

\* the record that delete request r found in the manifest it read
DeletedRecord(r) == CertToDelete(ReadManifest(r), req[r].certNumber)

\* C19: an upload is answered 201 only when it has written its image file
\* and the manifest; a delete is answered 200 only when it has written the
\* manifest and the image file of the record it deleted is removed; a
\* delete that has written the manifest and removed nothing is answered 500.
C19_SuccessMeansDone ==
    \A r \in Reqs :
        /\ (req[r].kind = "upload" /\ Answered(r, 201))
            => /\ hist[r].wroteImage # {}
               /\ hist[r].wroteManifest
        /\ (req[r].kind = "delete" /\ Answered(r, 200))
            => /\ hist[r].wroteManifest
               /\ RecordImages(DeletedRecord(r)) \subseteq hist[r].removed
        /\ (req[r].kind = "delete" /\ pc[r] = "done"
                /\ hist[r].wroteManifest /\ hist[r].removed = {})
            => resp[r].status = 500

\* delete request r directly follows the successful upload r - 1 of the same
\* certNumber, which was not in the manifest file the upload found; neither
\* ran with another handler in flight, no step failed, and no request has
\* arrived since
DeletesAfterUpload(r) ==
    /\ r > 1
    /\ req[r - 1].kind = "upload"
    /\ Answered(r - 1, 201)
    /\ hist[r - 1].soloStart
    /\ hist[r - 1].readFile.kind = "json"
    /\ ~HasKey(ReadManifest(r - 1), req[r - 1].certNumber)
    /\ req[r].kind = "delete"
    /\ req[r].certNumber = req[r - 1].certNumber
    /\ Answered(r, 200)
    /\ Alone(r)

\* C20: after a successful upload of a certNumber k that is not in the
\* manifest M, directly followed by a successful delete of k, the manifest
\* file is M again and the image file the delete removed is the one the
\* upload wrote.
C20_UploadDeleteRoundTrip ==
    \A r \in Reqs :
        DeletesAfterUpload(r)
        => /\ manifestFile = hist[r - 1].readFile
           /\ hist[r].removed = hist[r - 1].wroteImage

====
